---- MODULE Spec2Model ----
(***************************************************************************)
(* Model of tplswitch_infocollector.py: the page parsers                   *)
(* (SwitchTPLParser), the data access object (SwitchTPLDAO) and the        *)
(* top-level run.  Page texts are sequences of one-character strings, so   *)
(* that the regular expressions, str.split, int() and json.loads of the    *)
(* source work on characters as they do in Python.                         *)
(***************************************************************************)
EXTENDS Integers, Sequences, FiniteSets, TLC

VARIABLES
    call,     \* ParseSpec: the parser call made, [fn, input]
    ret,      \* ParseSpec: what that call returned or raised
    switch,   \* SwitchTPLDAO.switch, the SwitchTPL object
    last,     \* the DAO call made last: [op, ok, err, status, code, session]
    loaded,   \* the ports page of the last ports_info_loader call that returned
    session,  \* the session the last successful logon returned (0: none yet)
    pc,       \* MainSpec: the statement of __main__ to run next
    log,      \* MainSpec: the requests sent and the calls ended, in order
    output    \* MainSpec: what was printed and written

vars == <<call, ret, switch, last, loaded, session, pc, log, output>>

-----------------------------------------------------------------------------
(* Bounds of the model *)

MaxPortNum == 10     \* port counts 0..MaxPortNum are rendered
MaxEdgePorts == 2    \* ports of the pages that enumerate state values
MaxShortPorts == 2   \* ports of the pages with arrays of the wrong length
MaxSessions == 2     \* sessions logon hands out in one behaviour of Spec

-----------------------------------------------------------------------------
(* Python values and exceptions *)

NoMatch == [found |-> FALSE, group |-> <<>>]

Match(g) == [found |-> TRUE, group |-> g]

Ok(v) == [ok |-> TRUE, err |-> "", val |-> v]

Raise(e) == [ok |-> FALSE, err |-> e, val |-> <<>>]

Min(S) == CHOOSE x \in S : \A y \in S : x <= y

\* lst[i] of a Python list: negative i counts from the end
PyIndexOk(lst, i) == -Len(lst) <= i /\ i < Len(lst)

PyIndex(lst, i) == IF i >= 0 THEN lst[i + 1] ELSE lst[Len(lst) + i + 1]

-----------------------------------------------------------------------------
(* Characters *)

DigitChars == <<"0", "1", "2", "3", "4", "5", "6", "7", "8", "9">>

IsDigit(c) == \E i \in 1..10 : DigitChars[i] = c

DigitVal(c) == (CHOOSE i \in 1..10 : DigitChars[i] = c) - 1

\* str.strip() and int() skip these
IsSpace(c) == c \in {" ", "\n", "\t", "\r"}

Letters ==
    {"a", "b", "c", "d", "e", "f", "g", "h", "i", "j", "k", "l", "m",
     "n", "o", "p", "q", "r", "s", "t", "u", "v", "w", "x", "y", "z",
     "A", "B", "C", "D", "E", "F", "G", "H", "I", "J", "K", "L", "M",
     "N", "O", "P", "Q", "R", "S", "T", "U", "V", "W", "X", "Y", "Z"}

\* the class \w
IsWord(c) == c \in Letters \/ IsDigit(c) \/ c = "_"

\* the positions at which lit occurs in text
Occ(text, lit) ==
    {p \in 1..(Len(text) - Len(lit) + 1) :
        text[p] = lit[1] /\ SubSeq(text, p, p + Len(lit) - 1) = lit}

-----------------------------------------------------------------------------
(* str.split(sep) for a one-character sep, and int(token) *)

RECURSIVE Split(_, _)
Split(s, sep) ==
    LET hits == {i \in 1..Len(s) : s[i] = sep}
    IN  IF hits = {} THEN <<s>>
        ELSE LET i == Min(hits)
             IN  <<SubSeq(s, 1, i - 1)>> \o Split(SubSeq(s, i + 1, Len(s)), sep)

RECURSIVE Strip(_)
Strip(s) ==
    IF s = <<>> THEN s
    ELSE IF IsSpace(s[1]) THEN Strip(Tail(s))
    ELSE IF IsSpace(s[Len(s)]) THEN Strip(SubSeq(s, 1, Len(s) - 1))
    ELSE s

RECURSIVE DigitsVal(_)
DigitsVal(s) ==
    IF s = <<>> THEN 0
    ELSE LET c == s[Len(s)]
             rest == DigitsVal(SubSeq(s, 1, Len(s) - 1))
         IN  IF c = "_" THEN rest ELSE 10 * rest + DigitVal(c)

\* digits, with single underscores allowed between them
IsIntBody(s) ==
    /\ s # <<>>
    /\ IsDigit(s[1]) /\ IsDigit(s[Len(s)])
    /\ \A i \in 1..Len(s) : IsDigit(s[i]) \/ s[i] = "_"
    /\ \A i \in 1..(Len(s) - 1) : ~(s[i] = "_" /\ s[i + 1] = "_")

PyInt(token) ==
    LET s == Strip(token)
        signed == s # <<>> /\ s[1] \in {"-", "+"}
        body == IF signed THEN Tail(s) ELSE s
    IN  IF ~IsIntBody(body) THEN Raise("ValueError")
        ELSE Ok(IF signed /\ s[1] = "-" THEN 0 - DigitsVal(body) ELSE DigitsVal(body))

\* list(map(int, group.split(',')))
IntList(group) ==
    LET toks == Split(group, ",")
    IN  IF \E i \in 1..Len(toks) : ~PyInt(toks[i]).ok THEN Raise("ValueError")
        ELSE Ok([i \in 1..Len(toks) |-> PyInt(toks[i]).val])

-----------------------------------------------------------------------------
(* The regular expressions of parse_ports_info *)

LitMaxPortNum ==
    <<"v", "a", "r", " ", "m", "a", "x", "_", "p", "o", "r", "t", "_",
      "n", "u", "m", " ", "=", " ">>

LitState == <<"s", "t", "a", "t", "e", ":", "[">>

LitLinkStatus ==
    <<"l", "i", "n", "k", "_", "s", "t", "a", "t", "u", "s", ":", "[">>

LitPkts == <<"p", "k", "t", "s", ":", "[">>

\* re.search(r'var max_port_num = (\d);', text)
SearchMaxPortNum(text) ==
    LET L == Len(LitMaxPortNum)
        hits == {p \in Occ(text, LitMaxPortNum) :
                    /\ p + L + 1 <= Len(text)
                    /\ IsDigit(text[p + L])
                    /\ text[p + L + 1] = ";"}
    IN  IF hits = {} THEN NoMatch ELSE Match(<<text[Min(hits) + L]>>)

\* re.search(open + r'([\s\S]*?)' + close, text), group being group(1):
\* the leftmost open that some close follows, then the nearest close.
SearchLazy(text, open, close) ==
    LET closes == Occ(text, close)
        starts == {p \in Occ(text, open) : \E q \in closes : q >= p + Len(open)}
    IN  IF starts = {} THEN NoMatch
        ELSE LET p == Min(starts)
                 q == Min({r \in closes : r >= p + Len(open)})
             IN  Match(SubSeq(text, p + Len(open), q - 1))

-----------------------------------------------------------------------------
(* SwitchTPLParser.parse_ports_info *)

state_info == <<"Disabled", "Enabled">>

link_info ==
    <<"Link Down", "Auto", "10Half", "10Full", "100Half", "100Full", "1000Full", "">>

\* d[k] = v on a dict kept as the sequence of its items in insertion order
DictSet(d, k, v) ==
    IF \E i \in 1..Len(d) : d[i].key = k
    THEN [i \in 1..Len(d) |-> IF d[i].key = k THEN [key |-> k, val |-> v] ELSE d[i]]
    ELSE Append(d, [key |-> k, val |-> v])

\* the body of the loop for one index: the record, or the IndexError
PortEntry(state, link_status, pkts, index) ==
    IF ~PyIndexOk(state, index) THEN Raise("IndexError")
    ELSE IF ~PyIndexOk(state_info, PyIndex(state, index)) THEN Raise("IndexError")
    ELSE IF ~PyIndexOk(link_status, index) THEN Raise("IndexError")
    ELSE IF ~PyIndexOk(link_info, PyIndex(link_status, index)) THEN Raise("IndexError")
    ELSE IF \E k \in 0..3 : ~PyIndexOk(pkts, 4 * index + k) THEN Raise("IndexError")
    ELSE Ok([status |-> PyIndex(state_info, PyIndex(state, index)),
             link_status |-> PyIndex(link_info, PyIndex(link_status, index)),
             txgoodpkt |-> PyIndex(pkts, 4 * index),
             txbadpkt |-> PyIndex(pkts, 4 * index + 1),
             rxgoodpkt |-> PyIndex(pkts, 4 * index + 2),
             rxbadpkt |-> PyIndex(pkts, 4 * index + 3)])

\* PortsLoop with a bug: an index error ends the loop and what was built is returned
RECURSIVE PortsLoopTruncating(_, _, _, _, _, _)
PortsLoopTruncating(max_port_num, state, link_status, pkts, index, ports_info) ==
    IF index >= max_port_num THEN Ok(ports_info)
    ELSE LET e == PortEntry(state, link_status, pkts, index)
         IN  IF ~e.ok THEN Ok(ports_info)
             ELSE PortsLoopTruncating(max_port_num, state, link_status, pkts,
                                      index + 1, DictSet(ports_info, index + 1, e.val))

\* for index in range(max_port_num), from index on, ports_info so far
RECURSIVE PortsLoop(_, _, _, _, _, _)
PortsLoop(max_port_num, state, link_status, pkts, index, ports_info) ==
    IF index >= max_port_num THEN Ok(ports_info)
    ELSE LET e == PortEntry(state, link_status, pkts, index)
         IN  IF ~e.ok THEN e
             ELSE PortsLoop(max_port_num, state, link_status, pkts, index + 1,
                            DictSet(ports_info, index + 1, e.val))

parse_ports_info(response_text) ==
    LET m1 == SearchMaxPortNum(response_text)
        m2 == SearchLazy(response_text, LitState, <<"]", ",">>)
        m3 == SearchLazy(response_text, LitLinkStatus, <<"]", ",">>)
        m4 == SearchLazy(response_text, LitPkts, <<"]">>)
        state == IntList(m2.group)
        link_status == IntList(m3.group)
        pkts == IntList(m4.group)
    IN  IF ~m1.found THEN Raise("AttributeError")
        ELSE IF ~m2.found THEN Raise("AttributeError")
        ELSE IF ~state.ok THEN Raise("ValueError")
        ELSE IF ~m3.found THEN Raise("AttributeError")
        ELSE IF ~link_status.ok THEN Raise("ValueError")
        ELSE IF ~m4.found THEN Raise("AttributeError")
        ELSE IF ~pkts.ok THEN Raise("ValueError")
        ELSE PortsLoop(PyInt(m1.group).val, state.val, link_status.val, pkts.val,
                       0, <<>>)

-----------------------------------------------------------------------------
(* SwitchTPLParser.parse_system_info *)

LitInfoDs ==
    <<"v", "a", "r", " ", "i", "n", "f", "o", "_", "d", "s", " ", "=", " ", "{">>

\* re.search(r'var info_ds = (\{[\s\S]*?\});$', text, flags=re.MULTILINE):
\* group(1) runs from the brace to the nearest "}" that ";" and a line end follow
SearchInfoDs(text) ==
    LET closes == {q \in Occ(text, <<"}", ";">>) :
                      q + 2 > Len(text) \/ text[q + 2] = "\n"}
        ends(p) == {q \in closes : q >= p + Len(LitInfoDs)}
        starts == {p \in Occ(text, LitInfoDs) : ends(p) # {}}
    IN  IF starts = {} THEN NoMatch
        ELSE LET p == Min(starts)
             IN  Match(SubSeq(text, p + Len(LitInfoDs) - 1, Min(ends(p))))

\* the end of the run of \w characters that starts at i (i - 1 if there is none)
RECURSIVE WordEnd(_, _)
WordEnd(s, i) ==
    IF i <= Len(s) /\ IsWord(s[i]) THEN WordEnd(s, i + 1) ELSE i - 1

RECURSIVE Join(_, _)
Join(parts, sep) ==
    IF parts = <<>> THEN <<>>
    ELSE IF Len(parts) = 1 THEN parts[1]
    ELSE parts[1] \o sep \o Join(Tail(parts), sep)

\* one match of r'^(\w+):' replaced by r'"\1":' in a line
QuoteKeyLine(line) ==
    LET j == WordEnd(line, 1)
    IN  IF j >= 1 /\ j < Len(line) /\ line[j + 1] = ":"
        THEN <<"\"">> \o SubSeq(line, 1, j) \o <<"\"">> \o SubSeq(line, j + 1, Len(line))
        ELSE line

\* QuoteKeys with a bug: re.MULTILINE left out, ^ matches at the start of s only
QuoteKeysNoMultiline(s) == QuoteKeyLine(s)

\* re.sub(r'^(\w+):', r'"\1":', s, flags=re.MULTILINE): with MULTILINE, ^
\* matches at the start of s and after every "\n", so the only matches are
\* at the starts of the lines of s, one a line
QuoteKeys(s) ==
    LET lines == Split(s, "\n")
    IN  Join([i \in 1..Len(lines) |-> QuoteKeyLine(lines[i])], <<"\n">>)

\* json.loads on the documents the pages can hold after key quoting: one
\* object whose keys and values are strings without escapes; JSON white
\* space anywhere between tokens.  A repeated key keeps its last value.
At(s, i) == IF 1 <= i /\ i <= Len(s) THEN s[i] ELSE "EOF"

RECURSIVE SkipWs(_, _)
SkipWs(s, i) == IF At(s, i) \in {" ", "\n", "\t", "\r"} THEN SkipWs(s, i + 1) ELSE i

\* a string literal at i: its content and the position after it
ScanString(s, i) ==
    LET closes == {j \in (i + 1)..Len(s) : s[j] = "\""}
    IN  IF At(s, i) # "\"" \/ closes = {} THEN [ok |-> FALSE, val |-> <<>>, next |-> i]
        ELSE LET j == Min(closes)
                 body == SubSeq(s, i + 1, j - 1)
             IN  IF \E k \in 1..Len(body) : body[k] \in {"\\", "\n", "\t", "\r"}
                 THEN [ok |-> FALSE, val |-> <<>>, next |-> i]
                 ELSE [ok |-> TRUE, val |-> body, next |-> j + 1]

\* the members of the object from i on, d being the pairs read so far
RECURSIVE JsonMembers(_, _, _)
JsonMembers(s, i, d) ==
    LET k == ScanString(s, i)
        colon == SkipWs(s, k.next)
        v == ScanString(s, SkipWs(s, colon + 1))
        after == SkipWs(s, v.next)
    IN  IF ~k.ok \/ At(s, colon) # ":" \/ ~v.ok THEN Raise("JSONDecodeError")
        ELSE IF At(s, after) = ","
             THEN JsonMembers(s, SkipWs(s, after + 1), DictSet(d, k.val, v.val))
        ELSE IF At(s, after) = "}" /\ SkipWs(s, after + 1) > Len(s)
             THEN Ok(DictSet(d, k.val, v.val))
        ELSE Raise("JSONDecodeError")

JsonLoads(s) ==
    LET open == SkipWs(s, 1)
        first == SkipWs(s, open + 1)
    IN  IF At(s, open) # "{" THEN Raise("JSONDecodeError")
        ELSE IF At(s, first) = "}"
             THEN IF SkipWs(s, first + 1) > Len(s) THEN Ok(<<>>)
                  ELSE Raise("JSONDecodeError")
        ELSE JsonMembers(s, first, <<>>)

parse_system_info(response_text) ==
    LET sys_info == SearchInfoDs(response_text)
    IN  IF ~sys_info.found THEN Raise("AttributeError")
        ELSE JsonLoads(QuoteKeys(sys_info.group))

-----------------------------------------------------------------------------
(* The ports page as the device writes it (PortStatisticsRpm.htm) *)

RECURSIVE DecNat(_)
DecNat(k) ==
    IF k < 10 THEN <<DigitChars[k + 1]>>
    ELSE DecNat(k \div 10) \o <<DigitChars[(k % 10) + 1]>>

Dec(k) == IF k < 0 THEN <<"-">> \o DecNat(0 - k) ELSE DecNat(k)

RECURSIVE Csv(_)
Csv(ints) ==
    IF ints = <<>> THEN <<>>
    ELSE IF Len(ints) = 1 THEN Dec(ints[1])
    ELSE Dec(ints[1]) \o <<",">> \o Csv(Tail(ints))

LitAllInfo ==
    <<"v", "a", "r", " ", "a", "l", "l", "_", "i", "n", "f", "o", " ", "=", " ",
      "{", "\n">>

\* in: [n, state, link_status, pkts], the values the device reports
PortsPage(in) ==
    LitMaxPortNum \o Dec(in.n) \o <<";", "\n">> \o LitAllInfo
        \o LitState \o Csv(in.state) \o <<"]", ",", "\n">>
        \o LitLinkStatus \o Csv(in.link_status) \o <<"]", ",", "\n">>
        \o LitPkts \o Csv(in.pkts) \o <<"]", "\n", "}", ";", "\n">>

\* pages whose arrays have the lengths the port count asks for
WellFormedPorts ==
    {[n |-> n,
      state |-> [i \in 1..n |-> (i + s) % 2],
      link_status |-> [i \in 1..n |-> (3 * i + l) % 8],
      pkts |-> [j \in 1..(4 * n) |-> 7 * (j - 1) + c]] :
        n \in 0..MaxPortNum, s \in 0..1, l \in 0..1, c \in {0, 95}}

StateVals == -3..2

\* pages with every combination of state values, in and out of range
EdgeStatePorts ==
    UNION {{[n |-> n,
             state |-> st,
             link_status |-> [i \in 1..n |-> 5],
             pkts |-> [j \in 1..(4 * n) |-> j]] : st \in [1..n -> StateVals]} :
              n \in 1..MaxEdgePorts}

LinkVals == -9..8

\* one-port pages with every link_status value, in and out of range
EdgeLinkPorts ==
    {[n |-> 1, state |-> <<1>>, link_status |-> <<l>>, pkts |-> <<1, 2, 3, 4>>] :
        l \in LinkVals}

\* pages whose state and pkts arrays are shorter or longer than the port count asks
ShortPorts ==
    UNION {{[n |-> n,
             state |-> [i \in 1..ls |-> 1],
             link_status |-> [i \in 1..n |-> 6],
             pkts |-> [j \in 1..lp |-> 10 * j]] :
                ls \in 0..(n + 1), lp \in 0..(4 * n + 1)} :
              n \in 1..MaxShortPorts}

PortsInputs == WellFormedPorts \cup EdgeStatePorts \cup EdgeLinkPorts \cup ShortPorts

-----------------------------------------------------------------------------
(* The system page as the device writes it (SystemInfoRpm.htm) *)

\* the keys sys_info_loader reads, in the order it reads them
KeyNames ==
    <<<<"d", "e", "s", "c", "r", "i", "S", "t", "r">>,
      <<"m", "a", "c", "S", "t", "r">>,
      <<"i", "p", "S", "t", "r">>,
      <<"n", "e", "t", "m", "a", "s", "k", "S", "t", "r">>,
      <<"g", "a", "t", "e", "w", "a", "y", "S", "t", "r">>,
      <<"f", "i", "r", "m", "w", "a", "r", "e", "S", "t", "r">>,
      <<"h", "a", "r", "d", "w", "a", "r", "e", "S", "t", "r">>>>

\* the string values the pages carry
ValuePool ==
    <<<<"S", "W", "1">>,
      <<"0", "0", ":", "1", "1", ":", "2", "2">>,
      <<"1", "0", ".", "0", ".", "0", ".", "2">>,
      <<"a", "}", ";">>,
      <<>>,
      <<" ", "k", ":", "v">>>>

\* the value of key number k in variant v of the page
SysValue(k, v) == ValuePool[((k + v) % Len(ValuePool)) + 1]

SysField(k, v) == KeyNames[k] \o <<":", "\"">> \o SysValue(k, v) \o <<"\"">>

\* the fields of the keys in ks, in ascending order from k on, sep between them
RECURSIVE SysFields(_, _, _, _)
SysFields(ks, v, sep, k) ==
    IF k > Len(KeyNames) THEN <<>>
    ELSE IF k \notin ks THEN SysFields(ks, v, sep, k + 1)
    ELSE SysField(k, v)
            \o (IF \E m \in ks : m > k THEN sep ELSE <<>>)
            \o SysFields(ks, v, sep, k + 1)

\* in: [layout, keys, variant].  "lines" puts every key at the start of a
\* line of its own, the lines ended by a line feed; "crlf" does the same with
\* lines ended by carriage return and line feed; "oneline" writes the whole
\* assignment on a single line.
SysPage(in) ==
    IF in.layout = "lines"
    THEN LitInfoDs \o <<"\n">>
            \o SysFields(in.keys, in.variant, <<",", "\n">>, 1)
            \o <<"\n", "}", ";", "\n">>
    ELSE IF in.layout = "crlf"
    THEN LitInfoDs \o <<"\r", "\n">>
            \o SysFields(in.keys, in.variant, <<",", "\r", "\n">>, 1)
            \o <<"\r", "\n", "}", ";", "\r", "\n">>
    ELSE LitInfoDs \o SysFields(in.keys, in.variant, <<",">>, 1) \o <<"}", ";">>

Layouts == {"lines", "crlf", "oneline"}

AllKeys == 1..Len(KeyNames)

\* pages with all the keys, in every layout and variant
FullSysInputs ==
    {[layout |-> l, keys |-> AllKeys, variant |-> v] :
        l \in Layouts, v \in 0..(Len(ValuePool) - 1)}

\* pages from which some keys are missing
PartialSysInputs ==
    {[layout |-> l, keys |-> ks, variant |-> 0] :
        l \in Layouts, ks \in (SUBSET AllKeys) \ {AllKeys}}

SysInputs == FullSysInputs \cup PartialSysInputs

-----------------------------------------------------------------------------
(* SwitchTPL and SwitchTPLDAO *)

\* None, kept apart from every string of characters
PyNone == <<"None">>

\* SwitchTPL.__init__
SwitchTPL ==
    [description |-> PyNone, mac_address |-> PyNone, ip_address |-> PyNone,
     subnet_mask |-> PyNone, gateway |-> PyNone, firmware |-> PyNone,
     hardware |-> PyNone, port_number |-> 0, ports |-> <<>>]

\* the attribute sys_info_loader sets from key number k
FieldNames ==
    <<"description", "mac_address", "ip_address", "subnet_mask", "gateway",
      "firmware", "hardware">>

DictHas(d, k) == \E i \in 1..Len(d) : d[i].key = k

DictGet(d, k) == d[CHOOSE i \in 1..Len(d) : d[i].key = k].val

\* what a request of a loader can bring: no response at all, the page
\* asked for, or the login page the device shows when the session is not valid
LoginPage == <<"<", "h", "t", "m", "l", ">", "\n">>

SysText(resp) == IF resp.kind = "page" THEN SysPage(resp.in) ELSE LoginPage

PortsText(resp) == IF resp.kind = "page" THEN PortsPage(resp.in) ELSE LoginPage

\* logon with a bug: every 2xx status is taken for a success
LogonAny2xx(resp, sid) ==
    IF resp.kind = "error"
    THEN [ok |-> FALSE, err |-> "ConnectionError", code |-> 0, session |-> 0]
    ELSE IF resp.status_code \div 100 = 2
    THEN [ok |-> TRUE, err |-> "", code |-> 0, session |-> sid]
    ELSE [ok |-> FALSE, err |-> "Exception", code |-> resp.status_code, session |-> 0]

\* logon with a bug: the session is returned whatever the status is
LogonIgnoresStatus(resp, sid) ==
    IF resp.kind = "error"
    THEN [ok |-> FALSE, err |-> "ConnectionError", code |-> 0, session |-> 0]
    ELSE [ok |-> TRUE, err |-> "", code |-> 0, session |-> sid]

\* SwitchTPLDAO.logon; sid is the requests.Session() it creates, resp what
\* session.post brings.  code is the status code in the exception's message.
logon(resp, sid) ==
    IF resp.kind = "error"
    THEN [ok |-> FALSE, err |-> "ConnectionError", code |-> 0, session |-> 0]
    ELSE IF resp.status_code = 200
    THEN [ok |-> TRUE, err |-> "", code |-> 0, session |-> sid]
    ELSE [ok |-> FALSE, err |-> "Exception", code |-> resp.status_code, session |-> 0]

\* the assignments of sys_info_loader from key k on: the first key missing
\* from sys_info raises KeyError, the assignments made before it stay
RECURSIVE SysAssign(_, _, _)
SysAssign(sw, sys_info, k) ==
    IF k > Len(KeyNames) THEN [ok |-> TRUE, err |-> "", switch |-> sw]
    ELSE IF ~DictHas(sys_info, KeyNames[k])
    THEN [ok |-> FALSE, err |-> "KeyError", switch |-> sw]
    ELSE SysAssign([sw EXCEPT ![FieldNames[k]] = DictGet(sys_info, KeyNames[k])],
                   sys_info, k + 1)

\* SwitchTPLDAO.sys_info_loader on the switch sw
sys_info_loader(sw, resp) ==
    IF resp.kind = "error" THEN [ok |-> FALSE, err |-> "ConnectionError", switch |-> sw]
    ELSE LET sys_info == parse_system_info(SysText(resp))
         IN  IF ~sys_info.ok THEN [ok |-> FALSE, err |-> sys_info.err, switch |-> sw]
             ELSE SysAssign(sw, sys_info.val, 1)

\* SwitchPort() with the attributes ports_info_loader sets
SwitchPort(port_id, port_data) ==
    [port_num |-> port_id,
     state |-> port_data.status,
     link_status |-> port_data.link_status,
     txgoodpkt |-> port_data.txgoodpkt,
     txbadpkt |-> port_data.txbadpkt,
     rxgoodpkt |-> port_data.rxgoodpkt,
     rxbadpkt |-> port_data.rxbadpkt]

\* for port_id, port_data in ports_info.items(): ports.append(port)
AppendPorts(ports, ports_info) ==
    ports \o [i \in 1..Len(ports_info) |-> SwitchPort(ports_info[i].key, ports_info[i].val)]

\* LoadPorts with a bug: self.switch.ports = [] left out
LoadPortsNoReset(ports, ports_info) == AppendPorts(ports, ports_info)

\* self.switch.ports = [] and the loop that fills it
LoadPorts(ports, ports_info) == AppendPorts(<<>>, ports_info)

\* ports_info_loader with a bug: the ports are emptied before the page is
\* fetched and parsed
PortsInfoLoaderResetFirst(sw, resp) ==
    IF resp.kind = "error"
    THEN [ok |-> FALSE, err |-> "ConnectionError", switch |-> [sw EXCEPT !.ports = <<>>]]
    ELSE LET ports_info == parse_ports_info(PortsText(resp))
         IN  IF ~ports_info.ok
             THEN [ok |-> FALSE, err |-> ports_info.err,
                   switch |-> [sw EXCEPT !.ports = <<>>]]
             ELSE [ok |-> TRUE, err |-> "",
                   switch |-> [sw EXCEPT !.ports = LoadPorts(sw.ports, ports_info.val)]]

\* SwitchTPLDAO.ports_info_loader on the switch sw
ports_info_loader(sw, resp) ==
    IF resp.kind = "error" THEN [ok |-> FALSE, err |-> "ConnectionError", switch |-> sw]
    ELSE LET ports_info == parse_ports_info(PortsText(resp))
         IN  IF ~ports_info.ok THEN [ok |-> FALSE, err |-> ports_info.err, switch |-> sw]
             ELSE [ok |-> TRUE, err |-> "",
                   switch |-> [sw EXCEPT !.ports = LoadPorts(sw.ports, ports_info.val)]]

-----------------------------------------------------------------------------
(* What the device answers *)

StatusCodes == {200, 201, 204, 401, 403, 404, 500}

LogonResponses ==
    {[kind |-> "error", status_code |-> 0]}
        \cup {[kind |-> "response", status_code |-> c] : c \in StatusCodes}

NoPage == {[kind |-> "error", in |-> <<>>], [kind |-> "login", in |-> <<>>]}

\* system pages for the DAO: whole in two variants, with a key missing, on one line
DaoSysInputs ==
    {[layout |-> "lines", keys |-> AllKeys, variant |-> v] : v \in 0..1}
        \cup {[layout |-> "lines", keys |-> AllKeys \ {k}, variant |-> 2] : k \in {1, 3, 7}}
        \cup {[layout |-> "oneline", keys |-> AllKeys, variant |-> 2]}

SysResponses == NoPage \cup {[kind |-> "page", in |-> i] : i \in DaoSysInputs}

\* ports pages for the DAO: the small ones of every kind, and the largest
DaoPortsInputs ==
    {in \in WellFormedPorts : in.n \in {1, 2, MaxPortNum} /\ in.pkts[1] = 0
                                 /\ in.state[1] = 1 /\ in.link_status[1] = 3}
        \cup {in \in EdgeStatePorts : in.n = 1 /\ in.state[1] \in {-1, 2}}
        \cup {in \in ShortPorts : /\ in.n = 2 /\ Len(in.state) \in {2, 3}
                                   /\ Len(in.pkts) \in {7, 9}}

PortsResponses == NoPage \cup {[kind |-> "page", in |-> i] : i \in DaoPortsInputs}

-----------------------------------------------------------------------------
(* The DAO under any sequence of calls *)

NoCall == [op |-> "none", ok |-> TRUE, err |-> "", status |-> 0, code |-> 0, session |-> 0]

LoaderCall(op, r) ==
    [op |-> op, ok |-> r.ok, err |-> r.err, status |-> 0, code |-> 0, session |-> 0]

Init ==
    /\ switch = SwitchTPL /\ last = NoCall /\ loaded = <<>> /\ session = 0
    /\ call = <<>> /\ ret = <<>>
    /\ pc = "dao" /\ log = <<>> /\ output = <<>>

Logon(resp) ==
    /\ session < MaxSessions
    /\ LET r == logon(resp, session + 1)
       IN  /\ last' = [op |-> "logon", ok |-> r.ok, err |-> r.err,
                       status |-> resp.status_code, code |-> r.code,
                       session |-> r.session]
           /\ session' = IF r.ok THEN r.session ELSE session
    /\ UNCHANGED <<call, ret, switch, loaded, pc, log, output>>

SysInfoLoader(resp) ==
    /\ session # 0
    /\ LET r == sys_info_loader(switch, resp)
       IN  /\ switch' = r.switch
           /\ last' = LoaderCall("sys_info_loader", r)
    /\ UNCHANGED <<call, ret, loaded, session, pc, log, output>>

PortsInfoLoader(resp) ==
    /\ session # 0
    /\ LET r == ports_info_loader(switch, resp)
       IN  /\ switch' = r.switch
           /\ last' = LoaderCall("ports_info_loader", r)
           /\ loaded' = IF r.ok THEN resp.in ELSE loaded
    /\ UNCHANGED <<call, ret, session, pc, log, output>>

Next ==
    \/ \E resp \in LogonResponses : Logon(resp)
    \/ \E resp \in SysResponses : SysInfoLoader(resp)
    \/ \E resp \in PortsResponses : PortsInfoLoader(resp)

Spec == Init /\ [][Next]_vars

-----------------------------------------------------------------------------
(* The top-level run, the statements under if __name__ == '__main__' *)

\* SwitchPort.to_dict
PortToDict(port) ==
    [port_num |-> port.port_num, state |-> port.state,
     link_status |-> port.link_status,
     txgoodpkt |-> port.txgoodpkt, txbadpkt |-> port.txbadpkt,
     rxgoodpkt |-> port.rxgoodpkt, rxbadpkt |-> port.rxbadpkt]

\* SwitchTPL.to_dict
ToDict(sw) ==
    [description |-> sw.description, mac_address |-> sw.mac_address,
     ip_address |-> sw.ip_address, subnet_mask |-> sw.subnet_mask,
     gateway |-> sw.gateway, firmware |-> sw.firmware, hardware |-> sw.hardware,
     ports |-> [i \in 1..Len(sw.ports) |-> PortToDict(sw.ports[i])]]

\* AfterCall with a bug: the exception of a call is caught and the run goes on
AfterCallGoesOn(op, ok) ==
    IF op = "logon" THEN "sys_info_loader"
    ELSE IF op = "sys_info_loader" THEN "ports_info_loader"
    ELSE "print"

\* the statement that runs after the call of op: nothing catches an
\* exception, so a call that raises ends the run
AfterCall(op, ok) ==
    IF ~ok THEN "raised"
    ELSE IF op = "logon" THEN "sys_info_loader"
    ELSE IF op = "sys_info_loader" THEN "ports_info_loader"
    ELSE "print"

Event(ev, what, sid, status) ==
    [ev |-> ev, what |-> what, session |-> sid, status |-> status]

\* how the call of op ended
Ended(op, r, sid) == Event(IF r.ok THEN "return" ELSE "raise", op, sid, 0)

MainSysResponses ==
    SysResponses \cup {[kind |-> "page", in |-> i] : i \in FullSysInputs}

MainInit ==
    /\ switch = SwitchTPL /\ last = NoCall /\ loaded = <<>> /\ session = 0
    /\ call = <<>> /\ ret = <<>>
    /\ pc = "logon" /\ log = <<>> /\ output = <<>>

\* s = stpl.logon()
MainLogon(resp) ==
    /\ pc = "logon"
    /\ LET r == logon(resp, 1)
       IN  /\ last' = [op |-> "logon", ok |-> r.ok, err |-> r.err,
                       status |-> resp.status_code, code |-> r.code,
                       session |-> r.session]
           /\ session' = r.session
           /\ log' = log \o <<Event("POST", "logon.cgi", 1, resp.status_code),
                              Ended("logon", r, r.session)>>
           /\ pc' = AfterCall("logon", r.ok)
    /\ UNCHANGED <<call, ret, switch, loaded, output>>

\* stpl.sys_info_loader(s)
MainSysInfoLoader(resp) ==
    /\ pc = "sys_info_loader"
    /\ LET r == sys_info_loader(switch, resp)
       IN  /\ switch' = r.switch
           /\ last' = LoaderCall("sys_info_loader", r)
           /\ log' = log \o <<Event("GET", "SystemInfoRpm.htm", session, 0),
                              Ended("sys_info_loader", r, session)>>
           /\ pc' = AfterCall("sys_info_loader", r.ok)
    /\ UNCHANGED <<call, ret, loaded, session, output>>

\* stpl.ports_info_loader(s)
MainPortsInfoLoader(resp) ==
    /\ pc = "ports_info_loader"
    /\ LET r == ports_info_loader(switch, resp)
       IN  /\ switch' = r.switch
           /\ last' = LoaderCall("ports_info_loader", r)
           /\ loaded' = IF r.ok THEN resp.in ELSE loaded
           /\ log' = log \o <<Event("GET", "PortStatisticsRpm.htm", session, 0),
                              Ended("ports_info_loader", r, session)>>
           /\ pc' = AfterCall("ports_info_loader", r.ok)
    /\ UNCHANGED <<call, ret, session, output>>

\* print(switch_info_json)
MainPrint ==
    /\ pc = "print"
    /\ output' = Append(output, [to |-> "stdout", data |-> ToDict(switch)])
    /\ pc' = "write"
    /\ UNCHANGED <<call, ret, switch, last, loaded, session, log>>

\* with open('switch_info.json', 'w') as f: f.write(switch_info_json)
MainWrite ==
    /\ pc = "write"
    /\ output' = Append(output, [to |-> "switch_info.json", data |-> ToDict(switch)])
    /\ pc' = "done"
    /\ UNCHANGED <<call, ret, switch, last, loaded, session, log>>

MainNext ==
    \/ \E resp \in LogonResponses : MainLogon(resp)
    \/ \E resp \in MainSysResponses : MainSysInfoLoader(resp)
    \/ \E resp \in PortsResponses : MainPortsInfoLoader(resp)
    \/ MainPrint
    \/ MainWrite

MainSpec == MainInit /\ [][MainNext]_vars

-----------------------------------------------------------------------------
(* The parsers alone: one call of a parser on one page *)

ParseInit ==
    /\ call \in {[fn |-> "parse_ports_info", input |-> in] : in \in PortsInputs}
               \cup {[fn |-> "parse_system_info", input |-> in] : in \in SysInputs}
    /\ ret = [ok |-> FALSE, err |-> "pending", val |-> <<>>]
    /\ switch = SwitchTPL /\ last = NoCall /\ loaded = <<>> /\ session = 0
    /\ pc = "parse" /\ log = <<>> /\ output = <<>>

ParsePortsInfo ==
    /\ call.fn = "parse_ports_info" /\ ret.err = "pending"
    /\ ret' = parse_ports_info(PortsPage(call.input))
    /\ UNCHANGED <<call, switch, last, loaded, session, pc, log, output>>

ParseSystemInfo ==
    /\ call.fn = "parse_system_info" /\ ret.err = "pending"
    /\ ret' = parse_system_info(SysPage(call.input))
    /\ UNCHANGED <<call, switch, last, loaded, session, pc, log, output>>

ParseNext == ParsePortsInfo \/ ParseSystemInfo

ParseSpec == ParseInit /\ [][ParseNext]_vars

-----------------------------------------------------------------------------
(* Properties of the parsers, under ParseSpec *)

PortsCallDone == call.fn = "parse_ports_info" /\ ret.err # "pending"

SysCallDone == call.fn = "parse_system_info" /\ ret.err # "pending"

\* the arrays have the lengths the port count asks for, the labels are in range
IsWellFormedPorts(in) ==
    /\ Len(in.state) = in.n /\ Len(in.link_status) = in.n /\ Len(in.pkts) = 4 * in.n
    /\ \A i \in 1..in.n : in.state[i] \in {0, 1} /\ in.link_status[i] \in 0..7

\* ports_info has the records of ports 1..n in order, counters from pkts[4(i-1)..]
PortsOfPage(ports_info, in) ==
    /\ Len(ports_info) = in.n
    /\ \A i \in 1..in.n :
          /\ ports_info[i].key = i
          /\ ports_info[i].val.txgoodpkt = in.pkts[4 * (i - 1) + 1]
          /\ ports_info[i].val.txbadpkt = in.pkts[4 * (i - 1) + 2]
          /\ ports_info[i].val.rxgoodpkt = in.pkts[4 * (i - 1) + 3]
          /\ ports_info[i].val.rxbadpkt = in.pkts[4 * (i - 1) + 4]

\* C1: for every page with max_port_num = N, state and link_status of length
\* N (values in {0,1} and 0..7) and pkts of length 4N, parse_ports_info
\* returns exactly N records, keyed 1..N in ascending order, the record of
\* port i holding pkts[4(i-1)], ..., pkts[4(i-1)+3] as its four counters.
C1_WellFormedPageParses ==
    (PortsCallDone /\ IsWellFormedPorts(call.input))
        => (ret.ok /\ PortsOfPage(ret.val, call.input))

\* C2: for every page in which some state[i], i < max_port_num, is an integer
\* outside {0,1}, negative ones included, parse_ports_info fails with an
\* out-of-range error and returns no records; no such value gets a label.
C2_StateOutOfRangeFails ==
    (/\ PortsCallDone
     /\ \E i \in 1..Len(call.input.state) :
           i <= call.input.n /\ call.input.state[i] \notin {0, 1})
        => (~ret.ok /\ ret.err = "IndexError" /\ ret.val = <<>>)

\* C3: for every page whose pkts array has fewer than 4 * max_port_num
\* entries, parse_ports_info fails with an error and returns no result:
\* neither a shorter list of ports nor a port with counters from elsewhere.
C3_ShortPktsFails ==
    (PortsCallDone /\ Len(call.input.pkts) < 4 * call.input.n)
        => (~ret.ok /\ ret.val = <<>>)

\* a page whose pkts cover the first port and not the second has failed
C3_Witness ==
    /\ PortsCallDone
    /\ call.input.n = 2 /\ Len(call.input.pkts) = 7 /\ Len(call.input.state) = 2
    /\ ret.err = "IndexError"

\* what the page of variant v carries: the seven keys with their values
ExpectedSysInfo(v) == [k \in AllKeys |-> [key |-> KeyNames[k], val |-> SysValue(k, v)]]

-----------------------------------------------------------------------------
(* Properties of the DAO, under Spec *)

\* the seven system-info fields of a switch
SystemInfoOf(sw) == [k \in AllKeys |-> sw[FieldNames[k]]]

\* C4: after any call to sys_info_loader that fails (fetch error, pattern not
\* found, malformed literal, or a required key missing from the mapping), the
\* seven system-info fields of the switch have the values they had before the
\* call: they are replaced as a unit or not at all.
C4_FailedSysLoadKeepsFields ==
    [][(last'.op = "sys_info_loader" /\ ~last'.ok)
          => SystemInfoOf(switch') = SystemInfoOf(switch)]_vars

\* the ports are those of the page, whole: n of them, numbered 1..n in order,
\* each with a label of the tables and the four counters of its place in pkts
PortsMatchPage(ports, in) ==
    /\ Len(ports) = in.n
    /\ \A i \in 1..in.n :
          /\ ports[i].port_num = i
          /\ \E s \in 1..Len(state_info) : ports[i].state = state_info[s]
          /\ \E l \in 1..Len(link_info) : ports[i].link_status = link_info[l]
          /\ ports[i].txgoodpkt = in.pkts[4 * (i - 1) + 1]
          /\ ports[i].txbadpkt = in.pkts[4 * (i - 1) + 2]
          /\ ports[i].rxgoodpkt = in.pkts[4 * (i - 1) + 3]
          /\ ports[i].rxbadpkt = in.pkts[4 * (i - 1) + 4]

\* C5: after any call to ports_info_loader the port sequence of the switch is
\* either the complete sequence built from the page just parsed (the call
\* succeeded) or exactly the sequence it held before the call (the call failed
\* at fetch or parse); it is never emptied or filled in part.
C5_PortsReplacedOrKept ==
    [][last'.op = "ports_info_loader"
          => IF last'.ok THEN PortsMatchPage(switch'.ports, loaded')
             ELSE switch'.ports = switch.ports]_vars

\* a call that failed has left the two ports of an earlier call in place
C5_Witness ==
    /\ last.op = "ports_info_loader" /\ ~last.ok /\ last.err = "IndexError"
    /\ Len(switch.ports) = 2

\* C6: logon returns a session if and only if the response to the POST to
\* logon.cgi has status 200; for every other status code it raises an error
\* that carries the status code, and returns no session.
C6_SessionIffStatus200 ==
    last.op = "logon"
        => /\ last.ok <=> last.status = 200
           /\ last.ok => (last.session # 0 /\ session = last.session)
           /\ ~last.ok => last.session = 0
           /\ (last.status # 0 /\ last.status # 200)
                 => (last.err = "Exception" /\ last.code = last.status)

\* a logon answered with 403 has raised, the session of an earlier logon is kept
C6_Witness ==
    /\ last.op = "logon" /\ ~last.ok /\ last.status = 403 /\ last.code = 403
    /\ session = 1

\* C8: in every state reached by any sequence of sys_info_loader and
\* ports_info_loader calls, succeeded or failed, once ports_info_loader has
\* succeeded the port sequence has as many ports as the max_port_num of the
\* ports page parsed last, no port_num twice, and port_num 1, 2, ..., N in order.
C8_PortsNumberedOneToN ==
    loaded # <<>>
        => /\ Len(switch.ports) = loaded.n
           /\ \A i \in 1..Len(switch.ports) : switch.ports[i].port_num = i
           /\ \A i, j \in 1..Len(switch.ports) :
                 i # j => switch.ports[i].port_num # switch.ports[j].port_num

\* two ports loaded from a page whose arrays run past the port count, and a
\* failed sys_info_loader call after that
C8_Witness ==
    /\ loaded # <<>> /\ loaded.n = 2 /\ Len(loaded.state) = 3
    /\ Len(switch.ports) = 2
    /\ last.op = "sys_info_loader" /\ ~last.ok

-----------------------------------------------------------------------------
(* Properties of the top-level run, under MainSpec *)

Gets == {i \in 1..Len(log) : log[i].ev = "GET"}

\* C9: in every run no GET of SystemInfoRpm.htm or PortStatisticsRpm.htm is
\* sent before the login POST has completed with status 200: a failed login
\* is never followed by a load step, and each load step uses the session
\* that login returned.
C9_NoGetBeforeLogin ==
    \A i \in Gets :
        /\ log[i].session # 0
        /\ \E j \in 1..(i - 1) :
              /\ log[j] = Event("POST", "logon.cgi", log[i].session, 200)
              /\ log[j + 1] = Event("return", "logon", log[i].session, 0)
              /\ j + 1 < i
        /\ \A j \in 1..(i - 1) : ~(log[j].ev = "raise" /\ log[j].what = "logon")

\* both pages were fetched and the run is over
C9_Witness == Cardinality(Gets) = 2 /\ pc = "done"

Returned(op) == \E i \in 1..Len(log) : log[i].ev = "return" /\ log[i].what = op

\* C10: in every run the first failure of logon, sys_info_loader or
\* ports_info_loader ends the run: no later step runs, no request is sent
\* again (at most one POST and one GET of each page), and the output (the
\* JSON printed and switch_info.json) is produced only if all three succeeded.
C10_FirstFailureEndsRun ==
    /\ \A i \in 1..Len(log) :
          log[i].ev = "raise" => (i = Len(log) /\ pc = "raised" /\ output = <<>>)
    /\ Cardinality({i \in 1..Len(log) : log[i].ev = "POST"}) <= 1
    /\ \A page \in {"SystemInfoRpm.htm", "PortStatisticsRpm.htm"} :
          Cardinality({i \in Gets : log[i].what = page}) <= 1
    /\ output # <<>>
          => (Returned("logon") /\ Returned("sys_info_loader")
                /\ Returned("ports_info_loader"))

\* sys_info_loader has raised after a good login: the run is over, nothing
\* was fetched after it and nothing was written
C10_Witness ==
    /\ pc = "raised" /\ last.op = "sys_info_loader" /\ last.err = "KeyError"
    /\ Len(log) = 4 /\ output = <<>>

====
